---- MODULE Spec2Model ----
(***************************************************************************)
(* A model of PairwiseNameComparator.pyx: the open-addressing tradeout     *)
(* table, the word utilities, validate_match, and parallel_find_matches    *)
(* (prange workers with per-thread NamePairSet buffers, the serial merge   *)
(* and the cleanup).                                                       *)
(*                                                                         *)
(* Strings are sequences of byte values (97 = 'a', 32 = ' ', 9 = TAB).     *)
(* A C index k is position k + 1 of the TLA+ sequence.                     *)
(***************************************************************************)
EXTENDS Integers, Sequences, FiniteSets, TLC

VARIABLES
    all_names,        \* the list argument: Python strings (sequences of code points)
    word_to_matches,  \* the dict argument, in its iteration order
    num_threads,      \* the int argument
    zero_div,         \* what the build does on hash % 0 (see tradeout_table_lookup)
    pc,               \* position of the thread that called parallel_find_matches
    n_threads,
    tt,               \* TradeoutTable* tt
    valid_names,
    name_ptrs,        \* char** name_ptrs, as the C strings it points to
    thread_results,   \* NamePairSet** thread_results, as the structs pointed to
    ti,               \* the i of the allocation loop over thread_results
    next_i,           \* the next outer index the dynamic schedule hands out
    worker,           \* per OpenMP thread: where it is and its private i
    exc,              \* the exception saved by the parallel section
    results,
    heap,             \* number of malloc'ed blocks not yet freed
    alloc_failed,     \* some malloc or realloc of this run has failed
    reported,         \* number of exceptions that reached the caller
    evals,            \* how many times validate_match was called on each <<i, j>>
    vpc,              \* position of the validate_match driver
    name_a, name_b,   \* arguments of validate_match
    ret_ab, ret_ba,   \* validate_match(name_a, name_b, tt) and the swapped call
    lookup_word,      \* argument of tradeout_table_lookup
    found             \* tradeout_table_lookup(tt, lookup_word)

input_vars == <<all_names, word_to_matches, num_threads, zero_div>>
scan_vars == <<pc, n_threads, valid_names, name_ptrs, thread_results, ti,
               next_i, worker, exc, results, heap, alloc_failed, reported, evals>>
validate_vars == <<vpc, name_a, name_b, ret_ab, ret_ba, lookup_word, found>>
vars == <<input_vars, scan_vars, tt, validate_vars>>

(***************************************************************************)
(* Bounds of the model and constants of the program.                       *)
(***************************************************************************)
MaxWords == 3          \* validate_match inputs: all names of up to MaxWords words
MaxNames == 3          \* length of all_names
MaxThreads == 2        \* largest positive num_threads
CpuCount == 1          \* multiprocessing.cpu_count() of the machine
InitialCapacity == 1   \* the initial capacity of a NamePairSet (1000 in the
                       \* source), scaled down so that buffers fill and grow

SPACE == 32            \* count_words / extract_word: s[0] == 32
HASH_SEED == 5381      \* hash_string
WORD_BUF == 1024       \* char word_buf[1024]

NULL == <<0>>          \* a null char*: no C string holds a 0 byte

\* a null StringSet*, and the StringSet* values a lookup can produce
NULL_SET == [tag |-> "NULL", strings |-> <<>>, size |-> 0, capacity |-> 0]

\* a null TradeoutTable*
NULL_TT == [tag |-> "NULL", entries |-> <<>>, capacity |-> 0, size |-> 0]

(***************************************************************************)
(* STRING SET OPERATIONS                                                   *)
(***************************************************************************)
\* string_set_contains: linear scan of strings[0 .. size-1] with strcmp
string_set_contains(ss, s) ==
    IF \E i \in 1..ss.size : ss.strings[i] = s THEN 1 ELSE 0

\* free_string_set: the number of blocks it releases (each non-NULL
\* strings[i] for i < size, the strings array, the struct)
free_string_set(ss) ==
    IF ss.tag = "NULL" THEN 0
    ELSE Cardinality({i \in 1..ss.size : ss.strings[i] # NULL}) + 2

(***************************************************************************)
(* HASH FUNCTION                                                           *)
(***************************************************************************)
RECURSIVE hash_loop(_, _, _)
hash_loop(s, k, hash_val) ==
    IF k > Len(s) THEN hash_val
    ELSE hash_loop(s, k + 1, ((hash_val * 32) + hash_val) + s[k])

\* djb2.  For the words of this model (at most 3 bytes) the value stays
\* below 2^31, so the unsigned long never wraps.
hash_string(s) == hash_loop(s, 1, HASH_SEED)

(***************************************************************************)
(* STRING UTILITIES                                                        *)
(***************************************************************************)
RECURSIVE count_words_loop(_, _, _, _)
count_words_loop(s, k, in_word, count) ==
    IF k > Len(s) THEN count
    ELSE IF s[k] = SPACE THEN count_words_loop(s, k + 1, 0, count)
    ELSE IF in_word = 0 THEN count_words_loop(s, k + 1, 1, count + 1)
    ELSE count_words_loop(s, k + 1, in_word, count)

count_words(s) == count_words_loop(s, 1, 0, 0)

\* The loop of extract_word.  i is the C index, output the bytes written so
\* far (out_idx = Len(output)).
RECURSIVE extract_word_loop(_, _, _, _, _, _, _)
extract_word_loop(s, word_index, max_len, i, current_word, in_word, output) ==
    IF i + 1 > Len(s) THEN output
    ELSE IF s[i + 1] = SPACE
         THEN IF in_word = 1 /\ current_word = word_index
              THEN output
              ELSE extract_word_loop(s, word_index, max_len, i + 1,
                                     current_word, 0, output)
         ELSE LET cw == IF in_word = 0 THEN current_word + 1 ELSE current_word
                  out == IF cw = word_index + 1 /\ Len(output) < max_len - 1
                         THEN Append(output, s[i + 1]) ELSE output
              IN extract_word_loop(s, word_index, max_len, i + 1, cw, 1, out)

extract_word(s, word_index, max_len) ==
    extract_word_loop(s, word_index, max_len, 0, 0, 0, <<>>)

(***************************************************************************)
(* Python str -> bytes -> char*                                            *)
(***************************************************************************)
\* str.encode('utf-8') of a sequence of code points below 2048
RECURSIVE encode(_)
encode(str) ==
    IF str = <<>> THEN <<>>
    ELSE LET cp == Head(str)
         IN (IF cp < 128 THEN <<cp>>
             ELSE <<192 + (cp \div 64), 128 + (cp % 64)>>) \o encode(Tail(str))

\* what C sees through <const char*>bytes: the bytes before the first 0
RECURSIVE c_str(_)
c_str(bytes) ==
    IF bytes = <<>> \/ Head(bytes) = 0 THEN <<>>
    ELSE <<Head(bytes)>> \o c_str(Tail(bytes))

\* bytes.decode('utf-8') of a char*, for the encodings above
RECURSIVE decode(_)
decode(bytes) ==
    IF bytes = <<>> THEN <<>>
    ELSE IF Head(bytes) < 128 THEN <<Head(bytes)>> \o decode(Tail(bytes))
    ELSE <<(Head(bytes) - 192) * 64 + (bytes[2] - 128)>> \o decode(Tail(Tail(bytes)))

(***************************************************************************)
(* TRADEOUT TABLE                                                          *)
(*                                                                         *)
(* malloc calls of one run are numbered in call order; the call numbered   *)
(* fail returns NULL (fail = 0: none does).  n is the number of calls made *)
(* so far, heap the number of blocks allocated and not yet freed.          *)
(***************************************************************************)
EmptySlot == [word |-> NULL, tradeouts |-> NULL_SET]

\* create_string_set, called when n mallocs have been made
create_string_set(initial_capacity, n, fail) ==
    IF n + 1 = fail
    THEN [ss |-> NULL_SET, n |-> n + 1, blocks |-> 0]
    ELSE IF n + 2 = fail
    THEN [ss |-> NULL_SET, n |-> n + 2, blocks |-> 0]
    ELSE [ss |-> [tag |-> "set", strings |-> <<>>, size |-> 0,
                  capacity |-> initial_capacity],
          n |-> n + 2, blocks |-> 2]

RECURSIVE free_entries(_, _)
free_entries(entries, i) ==
    IF i > Len(entries) THEN 0
    ELSE (IF entries[i].word # NULL THEN 1 ELSE 0)
         + free_string_set(entries[i].tradeouts)
         + free_entries(entries, i + 1)

\* free_tradeout_table: the number of blocks it releases
free_tradeout_table(t) ==
    IF t.tag = "NULL" THEN 0
    ELSE free_entries(t.entries, 1) + 2

\* "Find slot": linear probing from index for a slot whose word is NULL
RECURSIVE find_slot(_, _, _)
find_slot(entries, capacity, index) ==
    IF entries[index + 1].word # NULL
    THEN find_slot(entries, capacity, (index + 1) % capacity)
    ELSE index

\* "Add matches": the for loop over the supplied synonyms of one key
RECURSIVE add_matches(_, _, _, _, _)
add_matches(tradeout_set, matches, m, n, fail) ==
    IF m > Len(matches) THEN [ss |-> tradeout_set, n |-> n]
    ELSE IF tradeout_set.size >= tradeout_set.capacity
    THEN [ss |-> tradeout_set, n |-> n]                          \* break
    ELSE IF n + 1 = fail
    THEN add_matches(tradeout_set, matches, m + 1, n + 1, fail)  \* continue
    ELSE add_matches([tradeout_set EXCEPT
                          !.strings = Append(@, c_str(encode(matches[m]))),
                          !.size = @ + 1],
                     matches, m + 1, n + 1, fail)

\* "Populate from Python dict": the loop over word_to_matches.items(),
\* from item k on.  exc is "none", "MemoryError", or "undefined" when the
\* unchecked malloc of the self entry returned NULL and strcpy wrote to it.
RECURSIVE populate(_, _, _, _, _, _)
populate(w2m, k, t, n, live, fail) ==
    IF k > Len(w2m) THEN [exc |-> "none", tt |-> t, n |-> n, heap |-> live]
    ELSE
    LET word_bytes == encode(w2m[k].word)
        word_cstr == c_str(word_bytes)
        word_len == Len(word_bytes)
        index == find_slot(t.entries, t.capacity,
                           hash_string(word_cstr) % t.capacity)
    IN
    IF n + 1 = fail
    THEN [exc |-> "MemoryError", tt |-> NULL_TT, n |-> n + 1,
          heap |-> live - free_tradeout_table(t)]
    ELSE
    LET t1 == [t EXCEPT !.entries[index + 1].word = word_cstr]
        made == create_string_set(Len(w2m[k].matches) + 1, n + 1, fail)
    IN
    IF made.ss.tag = "NULL"
    THEN [exc |-> "MemoryError", tt |-> NULL_TT, n |-> made.n,
          heap |-> (live + 1) - free_tradeout_table(t1)]
    ELSE
    LET self == word_len = 1
        n2 == IF self THEN made.n + 1 ELSE made.n
        set1 == IF self
                THEN [made.ss EXCEPT !.strings = Append(@, word_cstr),
                                     !.size = @ + 1]
                ELSE made.ss
    IN
    IF self /\ n2 = fail
    THEN [exc |-> "undefined", tt |-> NULL_TT, n |-> n2, heap |-> live + 3]
    ELSE
    LET added == add_matches(set1, w2m[k].matches, 1, n2, fail)
        t2 == [t1 EXCEPT !.entries[index + 1].tradeouts = added.ss]
    IN populate(w2m, k + 1, t2, added.n, live + 1 + 2 + added.ss.size, fail)

\* create_tradeout_table(word_to_matches).  malloc0 tells whether this
\* platform's malloc(0) returns NULL.
create_tradeout_table(w2m, fail, malloc0) ==
    IF fail = 1
    THEN [exc |-> "MemoryError", tt |-> NULL_TT, n |-> 1, heap |-> 0]
    ELSE
    LET dict_size == Len(w2m)
        capacity == dict_size * 2
    IN
    IF fail = 2 \/ (capacity = 0 /\ malloc0 = "NULL")
    THEN [exc |-> "MemoryError", tt |-> NULL_TT, n |-> 2, heap |-> 0]
    ELSE populate(w2m, 1,
                  [tag |-> "table", entries |-> [i \in 1..capacity |-> EmptySlot],
                   capacity |-> capacity, size |-> dict_size],
                  2, 2, fail)

\* lookup_loop that looks at the slot the hash gives and nowhere else
lookup_no_probe(t, word, index, start_index) ==
    IF t.entries[index + 1].word = word THEN t.entries[index + 1].tradeouts
    ELSE NULL_SET

\* The probe loop of tradeout_table_lookup
RECURSIVE lookup_loop(_, _, _, _)
lookup_loop(t, word, index, start_index) ==
    IF t.entries[index + 1].word = NULL THEN NULL_SET
    ELSE IF t.entries[index + 1].word = word THEN t.entries[index + 1].tradeouts
    ELSE LET next == (index + 1) % t.capacity
         IN IF next = start_index THEN NULL_SET
            ELSE lookup_loop(t, word, next, start_index)

\* tradeout_table_lookup.  hash_val % tt.capacity with capacity 0 is what
\* the build makes of it (zd): "raise" - Cython's division check raises
\* ZeroDivisionError, which propagates; "null" - the exception cannot
\* propagate out of the function and NULL is returned; "trap" - C division
\* (cdivision), the process dies of SIGFPE.
tradeout_table_lookup(t, word, zd) ==
    IF t.capacity = 0
    THEN (IF zd = "null" THEN NULL_SET
          ELSE [NULL_SET EXCEPT !.tag = IF zd = "raise" THEN "ZeroDivisionError"
                                        ELSE "SIGFPE"])
    ELSE LET index == hash_string(word) % t.capacity
         IN lookup_loop(t, word, index, index)

(***************************************************************************)
(* VALIDATION LOGIC                                                        *)
(***************************************************************************)
\* direct_match that compares with the first word of name only
direct_match_first_word(word_buf, name, len) ==
    extract_word(name, 0, WORD_BUF) = word_buf

\* "Check direct match": the inner for loop with strcmp; TRUE when it breaks
direct_match(word_buf, name, len) ==
    \E j \in 0..(len - 1) : extract_word(name, j, WORD_BUF) = word_buf

\* "Check via tradeouts": the for loop with string_set_contains
tradeout_match(tradeouts, name, len) ==
    \E j \in 0..(len - 1) :
        string_set_contains(tradeouts, extract_word(name, j, WORD_BUF)) = 1

\* A counting loop of validate_match from word i on: how many words of name_x
\* match a word of name_y.  A negative result is a lookup that did not
\* return: -1 ZeroDivisionError raised, -2 SIGFPE.
RECURSIVE count_matches(_, _, _, _, _, _, _, _)
count_matches(name_x, len_x, name_y, len_y, t, zd, i, matches) ==
    IF i >= len_x THEN matches
    ELSE
    LET word_buf == extract_word(name_x, i, WORD_BUF) IN
    IF direct_match(word_buf, name_y, len_y)
    THEN count_matches(name_x, len_x, name_y, len_y, t, zd, i + 1, matches + 1)
    ELSE
    LET tradeouts == tradeout_table_lookup(t, word_buf, zd) IN
    IF tradeouts.tag = "ZeroDivisionError" THEN -1
    ELSE IF tradeouts.tag = "SIGFPE" THEN -2
    ELSE IF tradeouts.tag # "NULL" /\ tradeout_match(tradeouts, name_y, len_y)
    THEN count_matches(name_x, len_x, name_y, len_y, t, zd, i + 1, matches + 1)
    ELSE count_matches(name_x, len_x, name_y, len_y, t, zd, i + 1, matches)

\* "Count how many words from A match words in B (via tradeouts)"
matches_a_in_b(name_a_, len_a, name_b_, len_b, t, zd) ==
    count_matches(name_a_, len_a, name_b_, len_b, t, zd, 0, 0)

\* "Count how many words from B match words in A"
matches_b_in_a(name_a_, len_a, name_b_, len_b, t, zd) ==
    count_matches(name_b_, len_b, name_a_, len_a, t, zd, 0, 0)

\* apply_rules without its second rule
apply_rules_one_sided(len_a, len_b, num_mismatches_a, num_mismatches_b) ==
    IF len_a = 3 /\ num_mismatches_a # 0 /\ len_b >= 3 THEN 0
    ELSE IF (len_b - num_mismatches_b < 2) \/ (len_a - num_mismatches_a < 2) THEN 0
    ELSE 1

\* "Apply rules"
apply_rules(len_a, len_b, num_mismatches_a, num_mismatches_b) ==
    IF len_a = 3 /\ num_mismatches_a # 0 /\ len_b >= 3 THEN 0
    ELSE IF len_b = 3 /\ num_mismatches_b # 0 /\ len_a >= 3 THEN 0
    ELSE IF (len_b - num_mismatches_b < 2) \/ (len_a - num_mismatches_a < 2) THEN 0
    ELSE 1

\* validate_match: 1 accept, 0 reject; -1 / -2 as for count_matches
validate_match(name_a_, name_b_, t, zd) ==
    LET len_a == count_words(name_a_)
        len_b == count_words(name_b_)
    IN
    IF len_a < 2 \/ len_b < 2 THEN 0
    ELSE
    LET m_ab == matches_a_in_b(name_a_, len_a, name_b_, len_b, t, zd) IN
    IF m_ab < 0 THEN m_ab
    ELSE
    LET m_ba == matches_b_in_a(name_a_, len_a, name_b_, len_b, t, zd) IN
    IF m_ba < 0 THEN m_ba
    ELSE apply_rules(len_a, len_b, len_a - m_ab, len_b - m_ba)

(***************************************************************************)
(* Inputs of the model                                                     *)
(***************************************************************************)
\* the words names are made of: "a", "b", "cd"
WordPool == {<<97>>, <<98>>, <<99, 100>>}

RECURSIVE JoinWords(_)
JoinWords(ws) ==
    IF Len(ws) = 0 THEN <<>>
    ELSE IF Len(ws) = 1 THEN ws[1]
    ELSE ws[1] \o <<SPACE>> \o JoinWords(Tail(ws))

\* names of 1 .. MaxWords words separated by single spaces, and names with
\* irregular spacing: " a b", "a  b", "a b ", "a<TAB>b", ""
RegularNames ==
    {JoinWords(ws) : ws \in UNION {[1..k -> WordPool] : k \in 1..MaxWords}}

IrregularNames ==
    {<<32, 97, 32, 98>>, <<97, 32, 32, 98>>, <<97, 32, 98, 32>>,
     <<97, 9, 98>>, <<>>}

\* four-word names: "a b cd b", "b a a cd", "cd cd a b"
LongNames ==
    {JoinWords(<<<<97>>, <<98>>, <<99, 100>>, <<98>>>>),
     JoinWords(<<<<98>>, <<97>>, <<97>>, <<99, 100>>>>),
     JoinWords(<<<<99, 100>>, <<99, 100>>, <<97>>, <<98>>>>)}

ValidateNames == RegularNames \cup IrregularNames \cup LongNames

Item(w, ms) == [word |-> w, matches |-> ms]

\* synonym mappings: {}, {"a": ["b"]}, {"a": ["b"], "b": ["a"]},
\* {"cd": ["a", "b"], "b": []}, {"cd": []}, and
\* {"a": ["b"], "g": ["cd"], "b": []}, whose keys collide in the 6 slots:
\* "a" and "g" hash to slot 4, "b" to slot 5, so "g" goes to 5 and "b"
\* wraps around to 0
Mappings ==
    {<<>>,
     <<Item(<<97>>, <<<<98>>>>)>>,
     <<Item(<<97>>, <<<<98>>>>), Item(<<98>>, <<<<97>>>>)>>,
     <<Item(<<99, 100>>, <<<<97>>, <<98>>>>), Item(<<98>>, <<>>)>>,
     <<Item(<<99, 100>>, <<>>)>>,
     <<Item(<<97>>, <<<<98>>>>), Item(<<103>>, <<<<99, 100>>>>), Item(<<98>>, <<>>)>>}

\* the words looked up: "", "a" .. "m", "cd"
LookupWords == {<<>>, <<99, 100>>} \cup {<<c>> : c \in 97..109}

ZeroDivOf(w2m) == IF Len(w2m) = 0 THEN {"raise", "null", "trap"} ELSE {"raise"}

\* len(n.split()): Python's str.split() splits at runs of whitespace
PyWhitespace == {9, 10, 11, 12, 13, 28, 29, 30, 31, 32}

RECURSIVE py_split_loop(_, _, _, _)
py_split_loop(str, k, in_word, count) ==
    IF k > Len(str) THEN count
    ELSE IF str[k] \in PyWhitespace THEN py_split_loop(str, k + 1, 0, count)
    ELSE IF in_word = 0 THEN py_split_loop(str, k + 1, 1, count + 1)
    ELSE py_split_loop(str, k + 1, in_word, count)

py_split_len(str) == py_split_loop(str, 1, 0, 0)

\* names of the scan: "a b", "b a", "a", "a<TAB>b"
ScanNames == {<<97, 32, 98>>, <<98, 32, 97>>, <<97>>, <<97, 9, 98>>}

NameLists == UNION {[1..k -> ScanNames] : k \in 0..MaxNames}

\* {}, {"a": ["b"], "b": ["a"]}
ScanMappings ==
    {<<>>,
     <<Item(<<97>>, <<<<98>>>>), Item(<<98>>, <<<<97>>>>)>>}

\* the outcomes of a store through a null pointer (undefined behaviour): the
\* process is killed, or it runs on in a state about which nothing is known
UBOutcomes == {"crashed", "undefined"}

MallocResults == {"NULL", "block"}

(***************************************************************************)
(* PARALLEL MATCHING FUNCTION                                              *)
(***************************************************************************)
\* the if / elif / else on num_threads
resolve_threads(nt) ==
    IF nt = 0 THEN CpuCount
    ELSE IF nt = -1 THEN (IF CpuCount - 1 > 1 THEN CpuCount - 1 ELSE 1)
    ELSE nt

\* the malloc calls create_tradeout_table makes when none fails
MallocCalls(w2m) == create_tradeout_table(w2m, 0, "unique").n

\* valid_names = [n for n in all_names if len(n.split()) >= 2]
filter_names(names) == SelectSeq(names, LAMBDA n : py_split_len(n) >= 2)

\* a NamePairSet as one iteration of the allocation loop leaves it
new_buffer(pairs) ==
    [pairs |-> pairs, size |-> 0, capacity |-> InitialCapacity, data |-> <<>>]

\* collect that reads the buffer of one thread only
collect_one(bufs, ptrs, tid, nthreads) ==
    IF tid >= nthreads THEN <<>>
    ELSE [k \in 1..bufs[tid + 1].size |->
             <<decode(ptrs[bufs[tid + 1].data[k][1] + 1]),
               decode(ptrs[bufs[tid + 1].data[k][2] + 1])>>]

\* "SERIAL COLLECTION": the pairs of the buffers tid, tid + 1, ..., decoded
RECURSIVE collect(_, _, _, _)
collect(bufs, ptrs, tid, nthreads) ==
    IF tid >= nthreads THEN <<>>
    ELSE [k \in 1..bufs[tid + 1].size |->
             <<decode(ptrs[bufs[tid + 1].data[k][1] + 1]),
               decode(ptrs[bufs[tid + 1].data[k][2] + 1])>>]
         \o collect(bufs, ptrs, tid + 1, nthreads)

\* the blocks the finally clause frees
RECURSIVE free_buffers(_, _)
free_buffers(bufs, i) ==
    IF i > Len(bufs) THEN 0
    ELSE (IF bufs[i].pairs # "NULL" THEN 1 ELSE 0) + 1 + free_buffers(bufs, i + 1)

finally_frees(bufs, t) == free_buffers(bufs, 1) + 1 + 1 + free_tradeout_table(t)

Idle == [pc |-> "idle", i |-> 0]

ValidateOff ==
    /\ vpc = "off"
    /\ name_a = <<>>
    /\ name_b = <<>>
    /\ ret_ab = 0
    /\ ret_ba = 0
    /\ lookup_word = <<>>
    /\ found = NULL_SET

ScanOff(p) ==
    /\ pc = p
    /\ n_threads = 0
    /\ valid_names = <<>>
    /\ name_ptrs = <<>>
    /\ thread_results = <<>>
    /\ ti = 0
    /\ next_i = 0
    /\ worker = <<>>
    /\ exc = "none"
    /\ results = <<>>
    /\ heap = 0
    /\ alloc_failed = FALSE
    /\ reported = 0
    /\ evals = <<>>

Init ==
    /\ all_names \in NameLists
    /\ word_to_matches \in ScanMappings
    /\ num_threads \in {-1, 0} \cup (1..MaxThreads)
    /\ zero_div \in ZeroDivOf(word_to_matches)
    /\ tt = NULL_TT
    /\ ScanOff("start")
    /\ ValidateOff

\* an exception leaves parallel_find_matches
Raise ==
    /\ pc' = "raised"
    /\ reported' = reported + 1

\* "Build C tradeout table", after the thread count is resolved
CreateTable ==
    /\ pc = "start"
    /\ n_threads' = resolve_threads(num_threads)
    /\ \E fail \in 0..MallocCalls(word_to_matches), malloc0 \in {"NULL", "unique"} :
          LET r == create_tradeout_table(word_to_matches, fail, malloc0) IN
          /\ tt' = r.tt
          /\ heap' = r.heap
          /\ alloc_failed' = (fail # 0)
          /\ IF r.exc = "none" THEN pc' = "names" /\ reported' = reported
             ELSE IF r.exc = "MemoryError" THEN Raise
             ELSE pc' \in UBOutcomes /\ reported' = reported
    /\ UNCHANGED <<input_vars, evals, valid_names, name_ptrs, thread_results, ti, next_i,
                   worker, exc, results, validate_vars>>

\* "Filter to names with 2+ words", "Pre-convert names to bytes", name_ptrs
AllocNamePtrs ==
    /\ pc = "names"
    /\ valid_names' = filter_names(all_names)
    /\ \E got \in MallocResults :
          /\ alloc_failed' = (alloc_failed \/ (got = "NULL" /\ Len(valid_names') > 0))
          /\ IF got = "NULL"
             THEN /\ heap' = heap - free_tradeout_table(tt)
                  /\ Raise
                  /\ UNCHANGED name_ptrs
             ELSE /\ heap' = heap + 1
                  /\ name_ptrs' = [i \in 1..Len(valid_names') |->
                                      c_str(encode(valid_names'[i]))]
                  /\ pc' = "thread_results"
                  /\ UNCHANGED reported
    /\ UNCHANGED <<input_vars, evals, n_threads, tt, thread_results, ti, next_i, worker,
                   exc, results, validate_vars>>

\* "Per-thread result storage": the array of NamePairSet pointers
AllocThreadResults ==
    /\ pc = "thread_results"
    /\ \E got \in MallocResults :
          /\ alloc_failed' = (alloc_failed \/ got = "NULL")
          /\ IF got = "NULL"
             THEN /\ heap' = heap - 1 - free_tradeout_table(tt)
                  /\ Raise
                  /\ UNCHANGED <<thread_results, worker>>
             ELSE /\ heap' = heap + 1
                  /\ thread_results' = <<>>
                  /\ worker' = [tid \in 0..(n_threads - 1) |-> Idle]
                  /\ pc' = "buffers"
                  /\ UNCHANGED reported
    /\ UNCHANGED <<input_vars, evals, n_threads, tt, valid_names, name_ptrs, ti, next_i,
                   exc, results, validate_vars>>

\* one iteration of "for i in range(n_threads)": thread_results[i] and its pairs
AllocThreadBuffer ==
    /\ pc = "buffers"
    /\ \E got \in MallocResults, got_pairs \in MallocResults :
          /\ alloc_failed' = (alloc_failed \/ got = "NULL" \/ got_pairs = "NULL")
          /\ IF got = "NULL"
             THEN /\ heap' = heap - free_tradeout_table(tt) - 1
                  /\ Raise
                  /\ UNCHANGED <<thread_results, ti>>
             ELSE /\ heap' = heap + 1 + (IF got_pairs = "NULL" THEN 0 ELSE 1)
                  /\ thread_results' = Append(thread_results, new_buffer(got_pairs))
                  /\ ti' = ti + 1
                  /\ pc' = IF ti + 1 >= n_threads THEN "parallel" ELSE "buffers"
                  /\ UNCHANGED reported
    /\ UNCHANGED <<input_vars, evals, n_threads, tt, valid_names, name_ptrs, next_i,
                   worker, exc, results, validate_vars>>

\* the parallel section keeps the first exception raised in it
save_exc(e) == IF exc = "none" THEN e ELSE exc

\* WorkerClaim with a schedule that hands out every other index
WorkerClaimSkipsIndex(tid) ==
    /\ pc = "parallel"
    /\ worker[tid].pc = "idle"
    /\ next_i < Len(name_ptrs)
    /\ next_i' = next_i + 2
    /\ worker' = IF exc # "none" THEN worker
                 ELSE [worker EXCEPT ![tid] =
                          [pc |-> "inner", i |-> next_i]]
    /\ UNCHANGED <<input_vars, evals, pc, n_threads, tt, valid_names, name_ptrs,
                   thread_results, ti, exc, results, heap, alloc_failed, reported,
                   validate_vars>>

\* WorkerClaim that also clears the table pointer
WorkerClaimClearsTable(tid) ==
    /\ pc = "parallel"
    /\ worker[tid].pc = "idle"
    /\ next_i < Len(name_ptrs)
    /\ next_i' = next_i + 1
    /\ worker' = IF exc # "none" THEN worker
                 ELSE [worker EXCEPT ![tid] =
                          [pc |-> "inner", i |-> next_i]]
    /\ tt' = NULL_TT
    /\ UNCHANGED <<input_vars, evals, pc, n_threads, valid_names, name_ptrs,
                   thread_results, ti, exc, results, heap, alloc_failed, reported,
                   validate_vars>>

\* schedule='dynamic': thread tid takes the next outer index; the body is
\* skipped once an exception is saved
WorkerClaim(tid) ==
    /\ pc = "parallel"
    /\ worker[tid].pc = "idle"
    /\ next_i < Len(name_ptrs)
    /\ next_i' = next_i + 1
    /\ worker' = IF exc # "none" THEN worker
                 ELSE [worker EXCEPT ![tid] =
                          [pc |-> "inner", i |-> next_i]]
    /\ UNCHANGED <<input_vars, evals, pc, n_threads, tt, valid_names, name_ptrs,
                   thread_results, ti, exc, results, heap, alloc_failed, reported,
                   validate_vars>>

\* store_pair that grows the storage without recording the new capacity
store_pair_keeps_capacity(buf, i, j, got) ==
    IF buf.size >= buf.capacity /\ got = "NULL"
    THEN [buf EXCEPT !.pairs = "NULL"]
    ELSE [buf EXCEPT !.pairs = IF buf.size >= buf.capacity THEN got ELSE @,
                     !.data = Append(@, <<i, j>>), !.size = @ + 1]

\* "Store valid match in thread-local storage": the buffer after the store
\* of (i, j), grown first when full.  got is what realloc returns.
store_pair(buf, i, j, got) ==
    LET full == buf.size >= buf.capacity
        grown == IF full
                 THEN [buf EXCEPT !.pairs = got, !.capacity = buf.capacity * 2]
                 ELSE buf
    IN IF full /\ got = "NULL"
       THEN [buf EXCEPT !.pairs = "NULL"]
       ELSE [grown EXCEPT !.data = Append(@, <<i, j>>), !.size = @ + 1]

\* the tables create_tradeout_table can leave in tt for the mappings of the
\* scan, and the C strings of its names
ScanTables ==
    UNION {{create_tradeout_table(w, f, m).tt :
               f \in 0..MallocCalls(w), m \in {"NULL", "unique"}} :
           w \in ScanMappings} \cup {NULL_TT}

ScanCStrings == {c_str(encode(n)) : n \in ScanNames}

\* validate_match tabulated over the tables, division behaviours and names
\* of the scan
validate_table ==
    [t \in ScanTables, zd \in {"raise", "null", "trap"},
     x \in ScanCStrings, y \in ScanCStrings |-> validate_match(x, y, t, zd)]

\* what validate_match(name_ptrs[i], name_ptrs[j], tt) returns for each j of
\* the inner loop of outer index i, from j on: element j - i is the verdict
\* of the pair (i, j)
RECURSIVE verdicts(_, _, _, _, _)
verdicts(i, j, ptrs, t, zd) ==
    IF j >= Len(ptrs) THEN <<>>
    ELSE <<validate_table[t, zd, ptrs[i + 1], ptrs[j + 1]]>>
         \o verdicts(i, j + 1, ptrs, t, zd)

\* "for j in range(i + 1, n_names)" of one outer index i, from j on, on the
\* buffer buf of the thread that runs it; verdict[j - i] is what
\* validate_match returns for (i, j).  The realloc call numbered fail among those of this
\* loop returns NULL (0: none); k counts the calls made.  out tells how the
\* loop ends: "done", an exception raised, "SIGFPE", or "null_store" when a
\* pair is stored through pairs = NULL; last is the last j validate_match
\* was called for.
RECURSIVE inner_loop(_, _, _, _, _, _, _)
inner_loop(buf, i, j, n_names, verdict, fail, k) ==
    IF j >= n_names THEN [buf |-> buf, out |-> "done", k |-> k, last |-> j - 1]
    ELSE
    LET v == verdict[j - i]
        full == buf.size >= buf.capacity
        got == IF k + 1 = fail THEN "NULL" ELSE "block"
    IN
    IF v = 0 THEN inner_loop(buf, i, j + 1, n_names, verdict, fail, k)
    ELSE IF v = -1
    THEN [buf |-> buf, out |-> "ZeroDivisionError", k |-> k, last |-> j]
    ELSE IF v = -2 THEN [buf |-> buf, out |-> "SIGFPE", k |-> k, last |-> j]
    ELSE IF full /\ got = "NULL"
    THEN [buf |-> store_pair(buf, i, j, got), out |-> "MemoryError", k |-> k + 1,
          last |-> j]
    ELSE IF ~full /\ buf.pairs = "NULL"
    THEN [buf |-> buf, out |-> "null_store", k |-> k, last |-> j]
    ELSE inner_loop(store_pair(buf, i, j, got), i, j + 1, n_names, verdict, fail,
                    IF full THEN k + 1 ELSE k)

\* the call counts after one more call of validate_match on <<i, j>> for
\* each j of js
count_calls(counts, i, js) ==
    [p \in DOMAIN counts \cup {<<i, j>> : j \in js} |->
        (IF p \in DOMAIN counts THEN counts[p] ELSE 0)
        + (IF p[1] = i /\ p[2] \in js THEN 1 ELSE 0)]

\* the body of one iteration of the prange, run by thread tid for the outer
\* index it took
WorkerInner(tid) ==
    /\ pc = "parallel"
    /\ worker[tid].pc = "inner"
    /\ \E verdict \in {verdicts(worker[tid].i, worker[tid].i + 1, name_ptrs, tt,
                                zero_div)} :
       LET i == worker[tid].i
           n_names == Len(name_ptrs)
           calls == inner_loop(thread_results[tid + 1], i, i + 1, n_names,
                               verdict, 0, 0).k
       IN
       \E fail \in 0..calls :
       \E r \in {inner_loop(thread_results[tid + 1], i, i + 1, n_names,
                            verdict, fail, 0)} :
          /\ thread_results' = [thread_results EXCEPT ![tid + 1] = r.buf]
          /\ alloc_failed' = (alloc_failed \/ r.out = "MemoryError")
          /\ evals' = count_calls(evals, i, (i + 1)..r.last)
          /\ IF r.out = "SIGFPE"
             THEN pc' = "crashed" /\ UNCHANGED <<worker, exc>>
             ELSE IF r.out = "null_store"
             THEN pc' \in UBOutcomes /\ UNCHANGED <<worker, exc>>
             ELSE /\ worker' = [worker EXCEPT ![tid] = Idle]
                  /\ exc' = IF r.out = "done" THEN exc ELSE save_exc(r.out)
                  /\ UNCHANGED pc
    /\ UNCHANGED <<input_vars, n_threads, tt, valid_names, name_ptrs, ti, next_i,
                   results, heap, reported, validate_vars>>

\* Join that does not wait for the threads still in their inner loops
JoinNoWait ==
    /\ pc = "parallel"
    /\ next_i >= Len(name_ptrs)
    /\ pc' = IF exc = "none" THEN "merge" ELSE "finally"
    /\ UNCHANGED <<input_vars, evals, n_threads, tt, valid_names, name_ptrs,
                   thread_results, ti, next_i, worker, exc, results, heap,
                   alloc_failed, reported, validate_vars>>

\* the end of the parallel section: every index handed out, every thread back
Join ==
    /\ pc = "parallel"
    /\ next_i >= Len(name_ptrs)
    /\ \A tid \in DOMAIN worker : worker[tid].pc = "idle"
    /\ pc' = IF exc = "none" THEN "merge" ELSE "finally"
    /\ UNCHANGED <<input_vars, evals, n_threads, tt, valid_names, name_ptrs,
                   thread_results, ti, next_i, worker, exc, results, heap,
                   alloc_failed, reported, validate_vars>>

\* "SERIAL COLLECTION: Convert C results back to Python"
Merge ==
    /\ pc = "merge"
    /\ results' = collect(thread_results, name_ptrs, 0, n_threads)
    /\ pc' = "finally"
    /\ UNCHANGED <<input_vars, evals, n_threads, tt, valid_names, name_ptrs,
                   thread_results, ti, next_i, worker, exc, heap, alloc_failed,
                   reported, validate_vars>>

\* "Cleanup C memory", then the return or the saved exception
Finally ==
    /\ pc = "finally"
    /\ heap' = heap - finally_frees(thread_results, tt)
    /\ IF exc = "none" THEN pc' = "returned" /\ reported' = reported
       ELSE Raise
    /\ UNCHANGED <<input_vars, evals, n_threads, tt, valid_names, name_ptrs,
                   thread_results, ti, next_i, worker, exc, results,
                   alloc_failed, validate_vars>>

Next ==
    \/ CreateTable
    \/ AllocNamePtrs
    \/ AllocThreadResults
    \/ AllocThreadBuffer
    \/ \E tid \in DOMAIN worker : WorkerClaim(tid)
    \/ \E tid \in DOMAIN worker : WorkerInner(tid)
    \/ Join
    \/ Merge
    \/ Finally

Spec == Init /\ [][Next]_vars

\* the thread that called parallel_find_matches, from its call to its end
MainThread ==
    \/ CreateTable
    \/ AllocNamePtrs
    \/ AllocThreadResults
    \/ AllocThreadBuffer
    \/ Join
    \/ Merge
    \/ Finally

\* OpenMP thread tid of the prange
WorkerThread(tid) ==
    /\ tid \in DOMAIN worker
    /\ (WorkerClaim(tid) \/ WorkerInner(tid))

\* the thread numbers resolve_threads can give
ThreadIds ==
    0..((IF MaxThreads > resolve_threads(0) THEN MaxThreads ELSE resolve_threads(0)) - 1)

\* the operating system runs every thread that can run: the calling thread
\* and each thread of the prange
SpecFair ==
    /\ Spec
    /\ WF_vars(MainThread)
    /\ \A tid \in ThreadIds : WF_vars(WorkerThread(tid))

(***************************************************************************)
(* SpecValidate: validate_match applied to a pair of names, both ways,     *)
(* over a table built without allocation failure.                          *)
(***************************************************************************)
InitValidate ==
    /\ all_names = <<>>
    /\ word_to_matches \in Mappings
    /\ num_threads = 0
    /\ zero_div \in ZeroDivOf(word_to_matches)
    /\ tt = NULL_TT
    /\ ScanOff("off")
    /\ vpc = "build"
    /\ name_a = <<>>
    /\ name_b = <<>>
    /\ ret_ab = 0
    /\ ret_ba = 0
    /\ lookup_word = <<>>
    /\ found = NULL_SET

BuildIndex ==
    /\ vpc = "build"
    /\ tt' = create_tradeout_table(word_to_matches, 0, "unique").tt
    /\ vpc' = "ready"
    /\ UNCHANGED <<input_vars, scan_vars, name_a, name_b, ret_ab, ret_ba,
                   lookup_word, found>>

Validate ==
    /\ vpc = "ready"
    /\ \E a \in ValidateNames, b \in ValidateNames :
          /\ name_a' = a
          /\ name_b' = b
          /\ ret_ab' = validate_match(a, b, tt, zero_div)
          /\ ret_ba' = validate_match(b, a, tt, zero_div)
    /\ vpc' = "done"
    /\ UNCHANGED <<input_vars, scan_vars, tt, lookup_word, found>>

\* a call tradeout_table_lookup(tt, word) on a table of at least one key
Lookup ==
    /\ vpc = "ready"
    /\ tt.capacity > 0
    /\ \E w \in LookupWords :
          /\ lookup_word' = w
          /\ found' = tradeout_table_lookup(tt, w, zero_div)
    /\ vpc' = "looked"
    /\ UNCHANGED <<input_vars, scan_vars, tt, name_a, name_b, ret_ab, ret_ba>>

NextValidate == BuildIndex \/ Validate \/ Lookup

SpecValidate == InitValidate /\ [][NextValidate]_vars

(***************************************************************************)
(* Vocabulary of the properties                                            *)
(***************************************************************************)
\* the words of a name: its maximal runs of non-space bytes
RECURSIVE SplitAtSpaces(_, _, _)
SplitAtSpaces(s, cur, acc) ==
    IF s = <<>> THEN (IF cur = <<>> THEN acc ELSE Append(acc, cur))
    ELSE IF Head(s) = SPACE
    THEN SplitAtSpaces(Tail(s), <<>>, IF cur = <<>> THEN acc ELSE Append(acc, cur))
    ELSE SplitAtSpaces(Tail(s), Append(cur, Head(s)), acc)

WordsOf(s) == SplitAtSpaces(s, <<>>, <<>>)

Range(f) == {f[x] : x \in DOMAIN f}

\* the tradeouts the mapping supplies for w (with w itself for a
\* one-character key)
Supplied(w) ==
    UNION {Range(word_to_matches[k].matches)
              \cup (IF Len(w) = 1 THEN {w} ELSE {}) :
           k \in {k \in DOMAIN word_to_matches : word_to_matches[k].word = w}}

\* v is an exact or tradeout counterpart of w, the tradeout taken either way
Counterpart(w, v) == w = v \/ v \in Supplied(w) \/ w \in Supplied(v)

HasCounterpart(w, name) == \E v \in Range(WordsOf(name)) : Counterpart(w, v)

\* how many words of name_x have a counterpart in name_y
MatchingWords(name_x, name_y) ==
    Cardinality({k \in DOMAIN WordsOf(name_x) :
                    HasCounterpart(WordsOf(name_x)[k], name_y)})

Terminal == {"returned", "raised", "crashed", "undefined"}

\* the pairs (names[i], names[j]), i < j, of the scan domain that
\* validate_match accepts over table t
AcceptedPairs(t) ==
    {<<decode(name_ptrs[i]), decode(name_ptrs[j])>> :
        <<i, j>> \in {p \in (DOMAIN name_ptrs) \X (DOMAIN name_ptrs) :
                        /\ p[1] < p[2]
                        /\ validate_match(name_ptrs[p[1]], name_ptrs[p[2]],
                                          t, zero_div) = 1}}

\* the result set the inputs alone determine: the scan domain filtered from
\* all_names, the table built from word_to_matches
ExpectedMatches ==
    LET ptrs == [i \in DOMAIN filter_names(all_names) |->
                    c_str(encode(filter_names(all_names)[i]))]
        t == create_tradeout_table(word_to_matches, 0, "unique").tt
    IN {<<decode(ptrs[p[1]]), decode(ptrs[p[2]])>> :
           p \in {p \in (DOMAIN ptrs) \X (DOMAIN ptrs) :
                    /\ p[1] < p[2]
                    /\ validate_match(ptrs[p[1]], ptrs[p[2]], t, zero_div) = 1}}

(***************************************************************************)
(* Properties                                                              *)
(***************************************************************************)
\* C1: validate_match is symmetric: for every pair of names and every
\* table, validate(A, B) gives the same verdict as validate(B, A).
ValidateSymmetric == vpc = "done" => ret_ab = ret_ba

\* a 3-word name rejected against a different 4-word name: the verdict comes
\* from the rule that looks at one side only
ValidateSymmetricWitness ==
    /\ vpc = "done"
    /\ count_words(name_a) = 3
    /\ count_words(name_b) = 4
    /\ ret_ab = 0
    /\ ret_ba = 0

\* C2: when the mapping lists t as a tradeout of key w, two 2-word names
\* that share one word and whose other words are w and t are accepted.
TradeoutSubstitution ==
    (/\ vpc = "done"
     /\ Len(WordsOf(name_a)) = 2
     /\ Len(WordsOf(name_b)) = 2
     /\ \E p \in 1..2, q \in 1..2 :
           /\ WordsOf(name_a)[p] = WordsOf(name_b)[q]
           /\ \E k \in DOMAIN word_to_matches :
                 /\ word_to_matches[k].word = WordsOf(name_a)[3 - p]
                 /\ WordsOf(name_b)[3 - q] \in Range(word_to_matches[k].matches))
    => ret_ab = 1

\* C3: the result never holds a pair whose two components are the same name.
NoSelfPairs ==
    pc = "returned" => \A k \in DOMAIN results : results[k][1] # results[k][2]

\* C4: no unordered pair of name values appears more than once in the result.
PairsUnique ==
    pc = "returned" =>
        \A k \in DOMAIN results, l \in DOMAIN results :
            k < l => {results[k][1], results[k][2]} # {results[l][1], results[l][2]}

\* C5: with no allocation failure, the set of pairs returned is the one the
\* names and the mapping determine, whatever the number of threads and the
\* order in which they take and finish the outer indices.
ResultSetDeterministic ==
    (pc = "returned" /\ ~alloc_failed) => Range(results) = ExpectedMatches

\* a run of two threads that both stored pairs, one of them after growing
\* its buffer
ResultSetDeterministicWitness ==
    /\ pc = "returned"
    /\ ~alloc_failed
    /\ n_threads = 2
    /\ thread_results[1].size >= 1
    /\ thread_results[2].size >= 1
    /\ \E k \in 1..2 : thread_results[k].capacity > InitialCapacity

\* C6: every run ends either returning the complete match set or reporting
\* exactly one error.
AllOrNothing ==
    pc \in Terminal =>
        \/ pc = "returned" /\ reported = 0 /\ Range(results) = AcceptedPairs(tt)
        \/ pc = "raised" /\ reported = 1

\* C7: when parallel_find_matches ends, by return or by exception, every
\* block it allocated has been freed.
NoLeaks == pc \in {"returned", "raised"} => heap = 0

\* C8: a name with fewer than 2 words is not in the scan domain, is in no
\* returned pair, and validate_match rejects it against every name.
TwoWordMinimum ==
    /\ pc \in {"parallel", "merge", "finally", "returned"} =>
          \A k \in DOMAIN valid_names :
              Len(WordsOf(c_str(encode(valid_names[k])))) >= 2
    /\ pc = "returned" =>
          \A k \in DOMAIN results :
              Len(WordsOf(results[k][1])) >= 2 /\ Len(WordsOf(results[k][2])) >= 2
    /\ \A x \in Range(name_ptrs), y \in Range(name_ptrs) :
          (Len(WordsOf(x)) < 2 \/ Len(WordsOf(y)) < 2) =>
              validate_match(x, y, tt, zero_div) = 0

\* C9: if A has exactly 3 words, one of which has no exact and no tradeout
\* counterpart in B, and B has 3 or more words, then neither validate(A, B)
\* nor validate(B, A) accepts.
ThreeWordStrict ==
    (/\ vpc = "done"
     /\ Len(WordsOf(name_a)) = 3
     /\ Len(WordsOf(name_b)) >= 3
     /\ \E k \in 1..3 : ~HasCounterpart(WordsOf(name_a)[k], name_b))
    => (ret_ab # 1 /\ ret_ba # 1)

\* C10: validate accepts only if at least 2 words of A have a counterpart
\* in B and at least 2 words of B have a counterpart in A.
TwoMatchFloor ==
    (vpc = "done" /\ ret_ab = 1) =>
        /\ MatchingWords(name_a, name_b) >= 2
        /\ MatchingWords(name_b, name_a) >= 2

\* C11: a name of 2 or more words matches itself: validate(name, name)
\* accepts, for every table and whatever the word count.
ExactEquality ==
    (vpc = "done" /\ name_a = name_b /\ Len(WordsOf(name_a)) >= 2) => ret_ab = 1

\* a 3-word name validated against itself
ExactEqualityWitness ==
    /\ vpc = "done"
    /\ name_a = name_b
    /\ Len(WordsOf(name_a)) = 3
    /\ ret_ab = 1

\* the tradeout set table t holds for key number k of the mapping
StoredSet(t, k) ==
    tradeout_table_lookup(t, c_str(encode(word_to_matches[k].word)), zero_div)

\* the set stored for key k holds every synonym the mapping supplies for it
HoldsSupplied(t, k) ==
    \A m \in DOMAIN word_to_matches[k].matches :
        string_set_contains(StoredSet(t, k),
                            c_str(encode(word_to_matches[k].matches[m]))) = 1

\* C12: a create_tradeout_table that returns a table has stored every
\* supplied synonym, and one that does not return a table has raised an
\* out-of-memory error to the caller with every block it allocated freed.
BuildFailureContract ==
    /\ tt.tag = "table" => \A k \in DOMAIN word_to_matches : HoldsSupplied(tt, k)
    /\ (tt.tag = "NULL" /\ pc # "start") =>
          (pc = "raised" /\ reported = 1 /\ heap = 0)

\* C13: a run in which the storage of some thread's buffer could not be
\* allocated (by the initial malloc or by a realloc) ends reporting one
\* error to the caller; in particular it does not end in a store into that
\* buffer.
BufferFailureReported ==
    (/\ pc \in Terminal
     /\ \E k \in DOMAIN thread_results : thread_results[k].pairs = "NULL")
    => (pc = "raised" /\ reported = 1)

\* C14: from the return of create_tradeout_table to the cleanup, no step
\* (of a worker or of the calling thread) changes the table: its slots,
\* keys, tradeout sets and sizes stay what construction made them.
TableImmutable ==
    [][(pc \in {"names", "thread_results", "buffers", "parallel", "merge"})
          => (tt' = tt)]_vars

\* two workers run their inner loops at the same time over a table of two
\* keys
TableImmutableWitness ==
    /\ pc = "parallel"
    /\ tt.tag = "table"
    /\ tt.size = 2
    /\ Cardinality({tid \in DOMAIN worker : worker[tid].pc = "inner"}) = 2

\* x < y for two Python strings: comparison by code point, a proper prefix
\* coming first
RECURSIVE LexLess(_, _)
LexLess(x, y) ==
    IF y = <<>> THEN FALSE
    ELSE IF x = <<>> THEN TRUE
    ELSE IF Head(x) # Head(y) THEN Head(x) < Head(y)
    ELSE LexLess(Tail(x), Tail(y))

\* C15: every tuple (name1, name2) of the returned list has name1 < name2.
PairsOrdered ==
    pc = "returned" =>
        \A k \in DOMAIN results : LexLess(results[k][1], results[k][2])

\* C16: in a table that create_tradeout_table returned, every key of the
\* mapping has a tradeout set that is not empty and holds every synonym
\* supplied for the key, and the key itself when it is one character long.
KeysHaveSets ==
    tt.tag = "table" =>
        \A k \in DOMAIN word_to_matches :
            /\ StoredSet(tt, k).tag = "set"
            /\ StoredSet(tt, k).size >= 1
            /\ HoldsSupplied(tt, k)
            /\ Len(encode(word_to_matches[k].word)) = 1 =>
                  string_set_contains(StoredSet(tt, k),
                                      c_str(encode(word_to_matches[k].word))) = 1

\* the tradeout set create_tradeout_table builds for key number k: the key
\* itself when it is one character long, then the supplied synonyms
BuiltSet(k) ==
    LET own == IF Len(encode(word_to_matches[k].word)) = 1
               THEN <<c_str(encode(word_to_matches[k].word))>> ELSE <<>>
        strings == own \o [m \in DOMAIN word_to_matches[k].matches |->
                              c_str(encode(word_to_matches[k].matches[m]))]
    IN [tag |-> "set", strings |-> strings, size |-> Len(strings),
        capacity |-> Len(word_to_matches[k].matches) + 1]

\* C17: on the table built from a non-empty mapping, a lookup of w returns
\* the set built for w when w is a key of the mapping and NULL when it is
\* not, whatever slots the keys collided into.
LookupCorrect ==
    vpc = "looked" =>
        LET keys == {k \in DOMAIN word_to_matches :
                        encode(word_to_matches[k].word) = lookup_word}
        IN IF keys = {} THEN found = NULL_SET
           ELSE \A k \in keys : found = BuiltSet(k)

\* a lookup of a key that is not in the slot its hash gives: it was pushed
\* past the end of the table and wrapped around to slot 0
LookupCorrectWitness ==
    /\ vpc = "looked"
    /\ found.tag = "set"
    /\ hash_string(lookup_word) % tt.capacity = tt.capacity - 1
    /\ tt.entries[1].word = lookup_word

\* the pairs <<i, j>> of indices of the scan domain with i < j
IndexPairs ==
    {p \in (0..(Len(name_ptrs) - 1)) \X (0..(Len(name_ptrs) - 1)) : p[1] < p[2]}

\* the outer indices some worker holds (taken, inner loop not yet run)
Held == {worker[tid].i : tid \in {t \in DOMAIN worker : worker[t].pc = "inner"}}

\* C18: no outer index is held by two workers, an index is held only after
\* the schedule handed it out and before any of its pairs is evaluated,
\* validate_match is never called twice on a pair nor on a pair with
\* i >= j, and a scan that returns has called it on every pair i < j.
EvaluatedOnce ==
    /\ \A p \in DOMAIN evals : evals[p] = 1 /\ p \in IndexPairs
    /\ pc = "parallel" =>
          /\ \A t1 \in DOMAIN worker, t2 \in DOMAIN worker :
                (/\ t1 # t2
                 /\ worker[t1].pc = "inner"
                 /\ worker[t2].pc = "inner") => worker[t1].i # worker[t2].i
          /\ \A i \in Held : i < next_i /\ \A p \in DOMAIN evals : p[1] # i
    /\ pc = "returned" => DOMAIN evals = IndexPairs

\* a scan of three names by two threads has returned
EvaluatedOnceWitness ==
    /\ pc = "returned"
    /\ n_threads = 2
    /\ Len(name_ptrs) = 3
    /\ Cardinality(DOMAIN evals) = 3
    /\ thread_results[1].size >= 1
    /\ thread_results[2].size >= 1

\* this step is a step of the inner loop of thread tid, and of no other
StepOf(tid) ==
    /\ pc = "parallel"
    /\ worker[tid].pc = "inner"
    /\ worker'[tid].pc = "idle" \/ pc' # "parallel"
    /\ \A t \in DOMAIN worker \ {tid} : worker'[t] = worker[t]

\* a buffer changes only in a step of its own thread's inner loop, and the
\* result list only in the step of the merge
OwnSteps ==
    /\ \A k \in DOMAIN thread_results :
          (/\ pc \in {"parallel", "merge", "finally", "returned"}
           /\ thread_results'[k] # thread_results[k]) => StepOf(k - 1)
    /\ (results' # results) => (pc = "merge" /\ pc' = "finally")

\* the parallel section is over: every index handed out, no thread in its
\* inner loop
WorkersDone ==
    /\ next_i >= Len(name_ptrs)
    /\ \A tid \in DOMAIN worker : worker[tid].pc = "idle"

\* C19: once the buffers are allocated, a buffer changes only in a step of
\* the inner loop of the thread it belongs to; the merge and the cleanup run
\* only when every index is handed out and no thread is in its inner loop,
\* and they leave the buffers as the workers left them.
BufferOwnership ==
    /\ [](pc \in {"merge", "finally", "returned"} => WorkersDone)
    /\ [][OwnSteps]_vars

\* the merge is about to read the buffers two workers filled
BufferOwnershipWitness ==
    /\ pc = "merge"
    /\ n_threads = 2
    /\ thread_results[1].size >= 1
    /\ thread_results[2].size >= 1

\* c is the initial capacity doubled some number of times
RECURSIVE Doubled(_)
Doubled(c) ==
    \/ c = InitialCapacity
    \/ c > InitialCapacity /\ c % 2 = 0 /\ Doubled(c \div 2)

\* what a step does to buffer k: the pairs stored before stay where they
\* were; the capacity changes only to a doubling, and only when the pairs
\* appended did not fit the capacity before it
GrowthStep(k) ==
    /\ thread_results'[k].size >= thread_results[k].size
    /\ SubSeq(thread_results'[k].data, 1, thread_results[k].size)
          = thread_results[k].data
    /\ thread_results'[k].capacity # thread_results[k].capacity =>
          /\ thread_results'[k].capacity > thread_results[k].capacity
          /\ thread_results'[k].size > thread_results[k].capacity
          /\ thread_results'[k].size > thread_results'[k].capacity \div 2

\* the buffer positions <<k, n>> that hold the index pair p
PlacesOf(p) ==
    {q \in UNION {{<<k, n>> : n \in 1..thread_results[k].size} :
                    k \in DOMAIN thread_results} :
        thread_results[q[1]].data[q[2]] = p}

\* C20: every buffer has 0 <= size <= capacity with size pairs stored and a
\* capacity that is the initial capacity doubled some number of times; a
\* step changes a capacity only by doubling it when the buffer was full at
\* an append, keeping the pairs already stored; and with no allocation
\* failure every accepted pair is in exactly one place of one buffer when
\* the merge starts.
BufferGrowth ==
    /\ [](\A k \in DOMAIN thread_results :
              /\ 0 <= thread_results[k].size
              /\ thread_results[k].size <= thread_results[k].capacity
              /\ Len(thread_results[k].data) = thread_results[k].size
              /\ Doubled(thread_results[k].capacity))
    /\ [][\A k \in DOMAIN thread_results : GrowthStep(k)]_vars
    /\ []((pc = "merge" /\ ~alloc_failed) =>
             \A p \in IndexPairs :
                 Cardinality(PlacesOf(p)) =
                     (IF validate_match(name_ptrs[p[1] + 1], name_ptrs[p[2] + 1],
                                        tt, zero_div) = 1 THEN 1 ELSE 0))

\* the merge starts on a buffer that was doubled twice
BufferGrowthWitness ==
    /\ pc = "merge"
    /\ ~alloc_failed
    /\ \E k \in DOMAIN thread_results :
          /\ thread_results[k].capacity = 4 * InitialCapacity
          /\ thread_results[k].size > 2 * InitialCapacity

\* C21: under fair scheduling of the threads, every run reaches the return
\* of parallel_find_matches unless an allocation fails in it, for every list
\* of names, every mapping and every thread count.
Termination == <>(alloc_failed \/ pc = "returned")

\* C22: every name the pre-filter admits to the scan domain has at least 2
\* words as count_words counts them, so validate_match is never called in
\* the scan on a name it rejects for having fewer than 2 words.
FilterAgreesWithMatcher ==
    /\ \A k \in DOMAIN name_ptrs : count_words(name_ptrs[k]) >= 2
    /\ \A p \in DOMAIN evals :
          /\ count_words(name_ptrs[p[1] + 1]) >= 2
          /\ count_words(name_ptrs[p[2] + 1]) >= 2

\* C23: over a table built from a mapping of no key, no call of
\* validate_match made by the scan computes an index modulo the zero
\* capacity (which a build that traps on division by zero shows as -2), the
\* scan neither raises because of it nor is killed, and each call returns
\* a verdict.
EmptyMappingHandled ==
    (Len(word_to_matches) = 0 /\ tt.tag = "table") =>
        /\ pc # "crashed"
        /\ exc # "ZeroDivisionError"
        /\ \A p \in DOMAIN evals :
              /\ validate_match(name_ptrs[p[1] + 1], name_ptrs[p[2] + 1], tt,
                                "trap") # -2
              /\ validate_match(name_ptrs[p[1] + 1], name_ptrs[p[2] + 1], tt,
                                zero_div) \in {0, 1}

====
